---- MODULE Spec2Model ----
(***************************************************************************)
(* Batch LIDAR workflow (ground + buildings -> DSM raster -> filled        *)
(* raster) of DSM-QGIS.py (LidarWorkflowProcessor.processAlgorithm, the    *)
(* "qgis" variant) and of DSM.py (the module-level script, the             *)
(* "standalone" variant).                                                  *)
(*                                                                         *)
(* The external programs (pdal, gdal_fillnodata) are the environment: each *)
(* invocation ends with one of the outcomes subprocess.run can have.  A    *)
(* pdal stage that exits 0 has written the output file its pipeline names; *)
(* an invocation that fails leaves the files as they were.                 *)
(***************************************************************************)
EXTENDS Naturals, Sequences, FiniteSets, TLC

VARIABLES
    variant,         \* "qgis" (DSM-QGIS.py) or "standalone" (DSM.py)
    cleanup,         \* CLEANUP_TEMP parameter (qgis only)
    inputDir,        \* file names present in the input folder
    laz_files,       \* the discovered work items, in enumeration order
    dirs,            \* directories created by the run
    files,           \* paths of the files the run has left on disk
    raster_outputs,  \* the aggregate output list
    appended_by,     \* history: index of the item that appended each entry
    pipeline_files,  \* stage descriptions registered for the current item
    current_step,    \* progress step counter (qgis only)
    canceled,        \* feedback.isCanceled() (qgis only)
    pc,              \* position of the batch driver
    idx,             \* index of the current work item
    stage,           \* stage of the current item about to run (1..4)
    engineCalls,     \* history: the pdal invocations of each item, in order
    detectCalls,     \* history: number of tool detector invocations
    probes,          \* history: probe invocations of the tool detector
    cand,            \* index in opciones of the candidate being probed
    fillnodata_cmd,  \* resolved fill command, None when unresolved
    fillIdx,         \* position in raster_outputs of the fill loop
    fillCalls,       \* history: fill invocations, in order
    raised,          \* history: items whose processing raised an exception
    lastReport,      \* diagnostic of the command runner's latest invocation
    notFound,        \* history: number of "fill tool not found" reports
    faults,          \* history: number of pdal/fill invocations and deletions gone wrong
    result,          \* returned counts, None until the run returns
    shownStep,       \* latest value passed to feedback.setCurrentStep (qgis only)
    unlinkRaised,    \* history: <<item, path>> of every unlink that raised
    previous         \* what an earlier run over the same folders did and left

vars == <<variant, cleanup, inputDir, laz_files, dirs, files, raster_outputs,
          appended_by, pipeline_files, current_step, canceled, pc, idx, stage,
          engineCalls, detectCalls, probes, cand, fillnodata_cmd, fillIdx,
          fillCalls, raised, lastReport, notFound, faults, result, shownStep,
          unlinkRaised, previous>>

(***************************************************************************)
(* Bounds of the model                                                     *)
(***************************************************************************)
MaxFiles == 2

MaxFaults == 2

\* the file names the input folder may hold: two point clouds of distinct
\* stems, a point cloud sharing its stem with another one, and a file that
\* is no point cloud
FileNames ==
    {[stem |-> "a", suffix |-> ".laz"], [stem |-> "b", suffix |-> ".laz"],
     [stem |-> "a", suffix |-> ".las"], [stem |-> "b", suffix |-> ".txt"]}

None == <<>>

Range(s) == {s[i] : i \in DOMAIN s}

\* every enumeration order of a finite set
Perms(S) ==
    {p \in [1..Cardinality(S) -> S] : \A i, j \in DOMAIN p : p[i] = p[j] => i = j}

(***************************************************************************)
(* Paths                                                                   *)
(***************************************************************************)
OutputDir(v) == IF v = "qgis" THEN "output" ELSE "resultados"

NodataDir(v) ==
    IF v = "qgis" THEN "output/nodata_raster_final" ELSE "resultados/nodata_rasters"

TempDir(v) == IF v = "qgis" THEN "output/temp" ELSE "temp"

\* Path.glob("*<suffix>") on the input folder
Glob(dir, suffix) == {f \in dir : f.suffix = suffix}

\* the enumerations the discovery can produce
Discover(v, dir) ==
    IF v = "qgis"
    THEN {p \o q : p \in Perms(Glob(dir, ".laz")), q \in Perms(Glob(dir, ".las"))}
    ELSE Perms(Glob(dir, ".laz"))

\* laz_file.stem
base_name(f) == f.stem

\* str(path)
PathStr(p) == p.dir \o "/" \o p.stem \o p.suffix

output_suelo(v, b) == [dir |-> OutputDir(v), stem |-> b \o "_suelo", suffix |-> ".las"]

output_edificios(v, b) ==
    [dir |-> OutputDir(v), stem |-> b \o "_edificios", suffix |-> ".las"]

output_merged(v, b) == [dir |-> OutputDir(v), stem |-> b \o "_merged", suffix |-> ".las"]

raster_output(v, b) == [dir |-> OutputDir(v), stem |-> b \o "_raster", suffix |-> ".tif"]

StageNames == <<"suelo", "edificios", "merge", "raster">>

NumStages == Len(StageNames)

pipeline_file(v, k, b) ==
    [dir |-> TempDir(v), stem |-> "pipeline_" \o StageNames[k] \o "_" \o b,
     suffix |-> ".json"]

\* the output file named by the pipeline of stage k
StageOutput(v, k, b) ==
    <<output_suelo(v, b), output_edificios(v, b), output_merged(v, b),
      raster_output(v, b)>>[k]

\* a cleanup that forgets the merged file
CleanupTargetsShort(v, b) == <<output_suelo(v, b), output_edificios(v, b)>>

\* the files the cleanup step removes
CleanupTargets(v, b) == <<output_suelo(v, b), output_edificios(v, b), output_merged(v, b)>>

output_nodata(v, raster_file) ==
    [dir |-> NodataDir(v),
     stem |-> raster_file.stem \o (IF v = "qgis" THEN "_filled" ELSE "_nodata"),
     suffix |-> ".tif"]

(***************************************************************************)
(* Command runner                                                          *)
(***************************************************************************)
\* what subprocess.run can do: exit 0, exit non-zero (CalledProcessError),
\* exceed the timeout (TimeoutExpired, only when a timeout is passed), or
\* raise anything else (OSError, UnicodeDecodeError, ...)
ProcOutcomes(v) ==
    IF v = "qgis" THEN {"exit0", "nonzero", "timeout", "oserror"}
    ELSE {"exit0", "nonzero", "oserror"}

\* a runner that does not look at the exit status
RunCommandIgnoresExit(v, o) ==
    CASE o \in {"exit0", "nonzero"} -> "True"
      [] o = "timeout" /\ v = "qgis" -> "False"
      [] OTHER -> "raise"

\* _run_command / run_command: "True", "False", or "raise" when the exception
\* is not one the runner catches
RunCommand(v, o) ==
    CASE o = "exit0" -> "True"
      [] o = "nonzero" -> "False"
      [] o = "timeout" /\ v = "qgis" -> "False"
      [] OTHER -> "raise"

\* diagnostic reported by the runner for a failed command
RunCommandReport(v, o) ==
    CASE o = "nonzero" -> "Error"
      [] o = "timeout" /\ v = "qgis" -> "Timeout"
      [] OTHER -> ""

\* no run was made before on these folders
NoPrevious == [taken |-> FALSE]

(***************************************************************************)
(* Initial state: the parameters and the content of the input folder       *)
(***************************************************************************)
Init ==
    /\ variant \in {"qgis", "standalone"}
    /\ cleanup \in (IF variant = "qgis" THEN BOOLEAN ELSE {FALSE})
    /\ inputDir \in {d \in SUBSET FileNames : Cardinality(d) <= MaxFiles}
    /\ laz_files = <<>>
    /\ dirs = {}
    /\ files = {}
    /\ raster_outputs = <<>>
    /\ appended_by = <<>>
    /\ pipeline_files = <<>>
    /\ current_step = 0
    /\ canceled = FALSE
    /\ pc = "start"
    /\ idx = 0
    /\ stage = 0
    /\ engineCalls = <<>>
    /\ detectCalls = 0
    /\ probes = <<>>
    /\ cand = 0
    /\ fillnodata_cmd = None
    /\ fillIdx = 0
    /\ fillCalls = <<>>
    /\ raised = {}
    /\ lastReport = ""
    /\ notFound = 0
    /\ faults = 0
    /\ result = None
    /\ shownStep = 0
    /\ unlinkRaised = {}
    /\ previous = NoPrevious

(***************************************************************************)
(* Discovery: create the folders, enumerate the work items, fail when      *)
(* there is none                                                           *)
(***************************************************************************)
\* a discovery that never finds the folder empty
NoWorkNever(found) == FALSE

\* `if not laz_files:` / `if len(laz_files) == 0:`
NoWork(found) == found = <<>>

\* a list that outlives the call (a class attribute)
KeptList(old) == old

\* `raster_outputs = []`
NewList(old) == <<>>

Start ==
    /\ pc = "start"
    /\ dirs' = {OutputDir(variant), NodataDir(variant), TempDir(variant)}
    /\ \E found \in Discover(variant, inputDir) :
          \* an unchanged folder is enumerated as it was before
          /\ previous.taken => found = previous.laz_files
          /\ laz_files' = found
          /\ engineCalls' = [i \in 1..Len(found) |-> <<>>]
          /\ IF NoWork(found)
             THEN /\ pc' = "error"
                  /\ UNCHANGED <<idx, raster_outputs, appended_by, current_step>>
             ELSE /\ pc' = "loop"
                  /\ idx' = 1
                  /\ raster_outputs' = NewList(raster_outputs)
                  /\ appended_by' = <<>>
                  /\ current_step' = 0
    /\ UNCHANGED <<previous, variant, cleanup, inputDir, files,
                   pipeline_files, canceled, stage,
                   detectCalls, probes, cand, fillnodata_cmd, fillIdx, fillCalls,
                   raised, lastReport, notFound, faults, result, shownStep,
                   unlinkRaised>>

(***************************************************************************)
(* Item boundary: leave the loop when the items are exhausted or (qgis)    *)
(* cancellation is observed, else begin the next item                      *)
(***************************************************************************)
ItemBegin ==
    /\ pc = "loop"
    /\ IF idx > Len(laz_files) \/ (variant = "qgis" /\ canceled)
       THEN /\ pc' = "post"
            /\ UNCHANGED <<stage, pipeline_files>>
       ELSE /\ pc' = "stage"
            /\ stage' = 1
            /\ pipeline_files' = <<>>
    /\ UNCHANGED <<previous, variant, cleanup, inputDir, laz_files, dirs, files,
                   raster_outputs, appended_by, current_step, canceled, idx,
                   engineCalls, detectCalls, probes, cand, fillnodata_cmd,
                   fillIdx, fillCalls, raised, lastReport, notFound, faults, result,
                   shownStep, unlinkRaised>>

(***************************************************************************)
(* One pipeline stage of the current item: register and write the stage    *)
(* description, run pdal on it, and act on the runner's answer             *)
(***************************************************************************)
\* what one stage can meet: the description cannot be written, or one of the
\* outcomes of the pdal process
StageOutcomes(v) == ProcOutcomes(v) \cup {"writefail"}

\* `break` in place of `continue`
StageFailureBreak(i) == Len(laz_files) + 1

\* `continue` after a stage whose runner returned False
StageFailureNext(i) == i + 1

\* `continue` of the item-level exception handler
ExceptNext(i) == i + 1

\* no handler at the item boundary
ItemExceptionEscapes == "crashed"

\* where the driver is after an exception raised inside an item: the handler
\* catches it and the loop goes on
ItemExceptionPc == "loop"

\* current_step after the item-level exception handler
ExceptStep(cs) == cs + (5 - (cs % 5))

\* the outcomes stage k of item i can meet: any, or in a second run over the
\* same folders the one it met in the first
StageOutcomesNow(i, k) ==
    IF ~previous.taken THEN StageOutcomes(variant)
    ELSE IF k <= Len(previous.engineCalls[i])
         THEN {o \in ProcOutcomes(variant) :
                   RunCommand(variant, o) = previous.engineCalls[i][k].returned}
         ELSE {"writefail"}

RunStage ==
    /\ pc = "stage"
    /\ shownStep' = IF variant = "qgis" THEN current_step ELSE shownStep
    /\ \E o \in StageOutcomesNow(idx, stage) :
        LET b == base_name(laz_files[idx])
            pf == pipeline_file(variant, stage, b)
            written == IF o = "writefail" THEN files ELSE files \cup {pf}
            r == IF o = "writefail" THEN "raise" ELSE RunCommand(variant, o)
            call == [file |-> pf, exit0 |-> (o = "exit0"), returned |-> r]
            step1 == IF variant = "qgis" THEN current_step + 1 ELSE current_step
        IN
        /\ o # "exit0" => faults < MaxFaults
        /\ faults' = IF o = "exit0" THEN faults ELSE faults + 1
        /\ pipeline_files' =
              IF variant = "qgis" THEN Append(pipeline_files, pf) ELSE pipeline_files
        /\ engineCalls' =
              IF o = "writefail" THEN engineCalls
              ELSE [engineCalls EXCEPT ![idx] = Append(@, call)]
        /\ lastReport' =
              IF o = "writefail" THEN lastReport ELSE RunCommandReport(variant, o)
        /\ CASE r = "True" /\ stage < NumStages ->
                  /\ files' = written \cup {StageOutput(variant, stage, b)}
                  /\ stage' = stage + 1
                  /\ current_step' = step1
                  /\ UNCHANGED <<pc, idx, raster_outputs, appended_by, raised>>
             [] r = "True" /\ stage = NumStages ->
                  /\ files' = written \cup {StageOutput(variant, stage, b)}
                  /\ raster_outputs' = Append(raster_outputs, raster_output(variant, b))
                  /\ appended_by' = Append(appended_by, idx)
                  /\ current_step' = step1
                  /\ IF variant = "qgis"
                     THEN /\ pc' = "cleanup"
                          /\ idx' = idx
                     ELSE /\ pc' = "loop"
                          /\ idx' = idx + 1
                  /\ UNCHANGED <<stage, raised>>
             [] r = "False" ->
                  /\ files' = written
                  /\ idx' = StageFailureNext(idx)
                  /\ pc' = "loop"
                  /\ UNCHANGED <<stage, current_step, raster_outputs, appended_by,
                                 raised>>
             [] OTHER ->
                  /\ files' = written
                  /\ raised' = raised \cup {idx}
                  /\ current_step' =
                        IF variant = "qgis" THEN ExceptStep(current_step)
                        ELSE current_step
                  /\ idx' = ExceptNext(idx)
                  /\ pc' = ItemExceptionPc
                  /\ UNCHANGED <<stage, raster_outputs, appended_by>>
    /\ UNCHANGED <<previous, variant, cleanup, inputDir, laz_files, dirs, canceled,
                   detectCalls, probes, cand, fillnodata_cmd, fillIdx, fillCalls,
                   notFound, result, unlinkRaised>>

(***************************************************************************)
(* qgis, after the raster was appended: remove the intermediate files when *)
(* asked to, then the stage descriptions of the item.  An unlink may raise *)
(* (the file is in use, the folder is read-only): the deletions before it  *)
(* are done, the later ones are not, and the item-level handler runs.      *)
(***************************************************************************)
\* fs without the first n files of seq
DeleteFirst(fs, seq, n) == fs \ {seq[i] : i \in 1..n}

Cleanup ==
    /\ pc = "cleanup"
    /\ LET b == base_name(laz_files[idx])
           targets == IF cleanup THEN CleanupTargets(variant, b) ELSE <<>>
           seq == targets \o pipeline_files
       IN
       \E failAt \in 0..Len(seq) :
          /\ previous.taken =>
                IF \E u \in previous.unlinkRaised : u[1] = idx
                THEN failAt # 0 /\ <<idx, seq[failAt]>> \in previous.unlinkRaised
                ELSE failAt = 0
          /\ shownStep' = current_step
          /\ IF failAt = 0
             THEN /\ files' = DeleteFirst(files, seq, Len(seq))
                  /\ faults' = faults
                  /\ current_step' = current_step + 1
                  /\ idx' = idx + 1
                  /\ pc' = "loop"
                  /\ UNCHANGED <<raised, unlinkRaised>>
             ELSE /\ faults < MaxFaults
                  /\ faults' = faults + 1
                  /\ unlinkRaised' = unlinkRaised \cup {<<idx, seq[failAt]>>}
                  /\ seq[failAt] \in DeleteFirst(files, seq, failAt - 1)
                  /\ files' = DeleteFirst(files, seq, failAt - 1)
                  /\ current_step' =
                        IF failAt <= Len(targets) THEN ExceptStep(current_step)
                        ELSE ExceptStep(current_step + 1)
                  /\ raised' = raised \cup {idx}
                  /\ idx' = ExceptNext(idx)
                  /\ pc' = ItemExceptionPc
    /\ UNCHANGED <<previous, variant, cleanup, inputDir, laz_files, dirs, raster_outputs,
                   appended_by, pipeline_files, canceled, stage, engineCalls,
                   detectCalls, probes, cand, fillnodata_cmd, fillIdx, fillCalls,
                   lastReport, notFound, result>>

(***************************************************************************)
(* After the item loop: the tool detector is called when there is a raster *)
(***************************************************************************)
\* a fill stage entered whatever the list holds
NeedsFillAlways(outs) == TRUE

NeedsFill(outs) == outs # <<>>

Post ==
    /\ pc = "post"
    /\ shownStep' = IF variant = "qgis" THEN current_step ELSE shownStep
    /\ IF NeedsFill(raster_outputs)
       THEN /\ detectCalls' = detectCalls + 1
            /\ cand' = 1
            /\ pc' = "probe"
       ELSE /\ pc' = "finish"
            /\ UNCHANGED <<detectCalls, cand>>
    /\ UNCHANGED <<previous, variant, cleanup, inputDir, laz_files, dirs, files,
                   raster_outputs, appended_by, pipeline_files, current_step,
                   canceled, idx, stage, engineCalls, probes, fillnodata_cmd,
                   fillIdx, fillCalls, raised, lastReport, notFound, faults, result,
                   unlinkRaised>>

(***************************************************************************)
(* Tool detector: one probe (<candidate> --help, 5 s timeout) per step     *)
(***************************************************************************)
opciones ==
    << <<"python", "-m", "osgeo_utils.gdal_fillnodata">>,
       <<"gdal_fillnodata">>,
       <<"gdal_fillnodata.py">> >>

ProbeOutcomes == {"exit0", "nonzero", "timeout", "oserror"}

\* a handler that catches CalledProcessError only
ProbeResultNarrow(o) ==
    CASE o = "exit0" -> "return"
      [] o = "nonzero" -> "continue"
      [] OTHER -> "raise"

\* what the try block around one probe does with its outcome: "return" the
\* candidate when subprocess.run returned, "continue" when it raised
\* (CalledProcessError, TimeoutExpired or whatever else: a bare except)
ProbeResult(o) == IF o = "exit0" THEN "return" ELSE "continue"

\* a missing tool turned into a failure of the run
NotFoundRaises == "crashed"

\* where the driver is after the detector answered None: the absence is
\* reported and the run goes on to its end
NotFoundPc == "finish"

Probe ==
    /\ pc = "probe"
    /\ \E o \in ProbeOutcomes :
        /\ (previous.taken /\ Len(probes) < Len(previous.probes)) =>
              (o = "exit0") = previous.probes[Len(probes) + 1].exit0
        /\ probes' = Append(probes, [cmd |-> opciones[cand] \o <<"--help">>,
                                      exit0 |-> (o = "exit0")])
        /\ CASE ProbeResult(o) = "return" ->
                  /\ fillnodata_cmd' = opciones[cand]
                  /\ fillIdx' = 1
                  /\ pc' = "fill"
                  /\ UNCHANGED <<cand, notFound>>
             [] ProbeResult(o) = "continue" /\ cand < Len(opciones) ->
                  /\ cand' = cand + 1
                  /\ UNCHANGED <<fillnodata_cmd, fillIdx, pc, notFound>>
             [] ProbeResult(o) = "continue" /\ cand = Len(opciones) ->
                  /\ fillnodata_cmd' = None
                  /\ notFound' = notFound + 1
                  /\ pc' = NotFoundPc
                  /\ UNCHANGED <<cand, fillIdx>>
             [] OTHER ->
                  \* the exception leaves the detector and the driver
                  /\ pc' = "crashed"
                  /\ UNCHANGED <<cand, fillnodata_cmd, fillIdx, notFound>>
    /\ UNCHANGED <<previous, variant, cleanup, inputDir, laz_files, dirs, files,
                   raster_outputs, appended_by, pipeline_files, current_step,
                   canceled, idx, stage, engineCalls, detectCalls, fillCalls,
                   raised, lastReport, faults, result, shownStep, unlinkRaised>>

(***************************************************************************)
(* Fill loop: one fill invocation per raster of the aggregate list         *)
(***************************************************************************)
FILL_DISTANCE == 75

FillCmd(v, tool, raster_file) ==
    tool \o <<"-md", ToString(FILL_DISTANCE), "-si", "0", PathStr(raster_file),
              PathStr(output_nodata(v, raster_file))>>

\* a fill loop that does not read the cancellation flag
FillNeverCanceled(v, c) == FALSE

\* `if feedback.isCanceled(): break` of the fill loop
FillCanceled(v, c) == v = "qgis" /\ c

Fill ==
    /\ pc = "fill"
    /\ IF fillIdx > Len(raster_outputs) \/ FillCanceled(variant, canceled)
       THEN /\ pc' = "finish"
            /\ UNCHANGED <<files, fillIdx, fillCalls, lastReport, faults>>
       ELSE \E o \in ProcOutcomes(variant) :
            LET rf == raster_outputs[fillIdx]
                r == RunCommand(variant, o)
            IN
            /\ (previous.taken /\ Len(fillCalls) < Len(previous.fillCalls)) =>
                  r = previous.fillCalls[Len(fillCalls) + 1].returned
            /\ o # "exit0" => faults < MaxFaults
            /\ faults' = IF o = "exit0" THEN faults ELSE faults + 1
            /\ fillCalls' = Append(fillCalls, [cmd |-> FillCmd(variant, fillnodata_cmd, rf),
                                               exit0 |-> (o = "exit0"),
                                               returned |-> r])
            /\ files' = IF r = "True" THEN files \cup {output_nodata(variant, rf)}
                        ELSE files
            /\ lastReport' = RunCommandReport(variant, o)
            /\ fillIdx' = fillIdx + 1
            /\ pc' = IF r = "raise" THEN "crashed" ELSE "fill"
    /\ UNCHANGED <<previous, variant, cleanup, inputDir, laz_files, dirs, raster_outputs,
                   appended_by, pipeline_files, current_step, canceled, idx,
                   stage, engineCalls, detectCalls, probes, cand, fillnodata_cmd,
                   raised, notFound, result, shownStep, unlinkRaised>>

(***************************************************************************)
(* End of the run: standalone sweeps the stage descriptions of the temp    *)
(* folder; both report the counts                                          *)
(***************************************************************************)
\* TEMP_FOLDER.glob("*.json")
TempJson(v, fs) == {f \in fs : f.dir = TempDir(v) /\ f.suffix = ".json"}

\* the files left by the final sweep (standalone only)
Sweep(v, fs) == IF v = "standalone" THEN fs \ TempJson(v, fs) ELSE fs

\* counts that report the filled rasters as the processed ones
CountsOfFills ==
    [PROCESSED_COUNT |-> Cardinality({k \in DOMAIN fillCalls : fillCalls[k].exit0}),
     TOTAL_COUNT |-> Len(laz_files)]

Counts == [PROCESSED_COUNT |-> Len(raster_outputs), TOTAL_COUNT |-> Len(laz_files)]

Finish ==
    /\ pc = "finish"
    /\ \/ /\ files' = Sweep(variant, files)
          /\ result' = Counts
          /\ pc' = "done"
          /\ faults' = faults
       \/ \* the first unlink of the sweep raises: the script dies there
          /\ variant = "standalone"
          /\ TempJson(variant, files) # {}
          /\ faults < MaxFaults
          /\ faults' = faults + 1
          /\ pc' = "crashed"
          /\ UNCHANGED <<files, result>>
    /\ UNCHANGED <<previous, variant, cleanup, inputDir, laz_files, dirs, raster_outputs,
                   appended_by, pipeline_files, current_step, canceled, idx,
                   stage, engineCalls, detectCalls, probes, cand, fillnodata_cmd,
                   fillIdx, fillCalls, raised, lastReport, notFound, shownStep,
                   unlinkRaised>>

(***************************************************************************)
(* The host requests cancellation (qgis only), at any time at which the    *)
(* run may still read the flag                                             *)
(***************************************************************************)
Cancel ==
    /\ variant = "qgis"
    /\ pc \in {"start", "loop", "stage", "cleanup", "post", "probe", "fill"}
    /\ ~canceled
    /\ canceled' = TRUE
    /\ UNCHANGED <<previous, variant, cleanup, inputDir, laz_files, dirs, files,
                   raster_outputs, appended_by, pipeline_files, current_step,
                   pc, idx, stage, engineCalls, detectCalls, probes, cand,
                   fillnodata_cmd, fillIdx, fillCalls, raised, lastReport, notFound,
                   faults, result, shownStep, unlinkRaised>>

Next ==
    \/ Start
    \/ ItemBegin
    \/ RunStage
    \/ Cleanup
    \/ Post
    \/ Probe
    \/ Fill
    \/ Finish
    \/ Cancel

Spec == Init /\ [][Next]_vars

(***************************************************************************)
(* Two runs in succession: the host calls processAlgorithm again with the  *)
(* same parameters on the folders the first run left, and the environment  *)
(* (pdal, the file system, the fill tool) answers the second run as it     *)
(* answered the first; no cancellation is requested.                       *)
(***************************************************************************)
Rerun ==
    /\ variant = "qgis"
    /\ pc = "done"
    /\ ~previous.taken
    \* the second run meets the faults of the first once more
    /\ faults + faults <= MaxFaults
    /\ previous' = [taken |-> TRUE,
                    laz_files |-> laz_files,
                    engineCalls |-> engineCalls,
                    unlinkRaised |-> unlinkRaised,
                    probes |-> probes,
                    fillCalls |-> fillCalls,
                    files |-> files,
                    raster_outputs |-> raster_outputs,
                    result |-> result]
    /\ pc' = "start"
    /\ laz_files' = <<>>
    /\ pipeline_files' = <<>>
    /\ idx' = 0
    /\ stage' = 0
    /\ engineCalls' = <<>>
    /\ detectCalls' = 0
    /\ probes' = <<>>
    /\ cand' = 0
    /\ fillnodata_cmd' = None
    /\ fillIdx' = 0
    /\ fillCalls' = <<>>
    /\ raised' = {}
    /\ lastReport' = ""
    /\ notFound' = 0
    /\ result' = None
    /\ shownStep' = 0
    /\ unlinkRaised' = {}
    /\ UNCHANGED <<variant, cleanup, inputDir, dirs, files, raster_outputs,
                   appended_by, current_step, canceled, faults>>

InitTwice == Init /\ variant = "qgis" /\ cleanup

NextTwice ==
    \/ Start
    \/ ItemBegin
    \/ RunStage
    \/ Cleanup
    \/ Post
    \/ Probe
    \/ Fill
    \/ Finish
    \/ Rerun

SpecTwice == InitTwice /\ [][NextTwice]_vars

TypeOK ==
    /\ variant \in {"qgis", "standalone"}
    /\ cleanup \in BOOLEAN
    /\ canceled \in BOOLEAN
    /\ pc \in {"start", "error", "loop", "stage", "cleanup", "post", "probe",
               "fill", "finish", "done", "crashed"}
    /\ Len(appended_by) = Len(raster_outputs)
    /\ idx \in 0..(Len(laz_files) + 1)
    /\ stage \in 0..NumStages
    /\ cand \in 0..Len(opciones)

(***************************************************************************)
(* Vocabulary of the properties                                            *)
(***************************************************************************)
Items == 1..Len(laz_files)

Base(i) == laz_files[i].stem

\* the pdal invocations made for item i, in order
CallsOf(i) == engineCalls[i]

\* the description file pdal is given for stage k of an item of stem b
StageFileStem ==
    [k \in 1..4 |->
        [b \in {f.stem : f \in FileNames} |->
            "pipeline_" \o <<"suelo", "edificios", "merge", "raster">>[k] \o "_" \o b]]

StageFile(k, b) ==
    [dir |-> IF variant = "qgis" THEN "output/temp" ELSE "temp",
     stem |-> StageFileStem[k][b],
     suffix |-> ".json"]

OutFile(b, tail, ext) ==
    [dir |-> IF variant = "qgis" THEN "output" ELSE "resultados",
     stem |-> b \o tail, suffix |-> ext]

Intermediates(b) ==
    {OutFile(b, "_suelo", ".las"), OutFile(b, "_edificios", ".las"),
     OutFile(b, "_merged", ".las")}

FinalRaster(b) == OutFile(b, "_raster", ".tif")

\* the rasterize stage of item i exited 0
RasterizeSucceeded(i) ==
    \E k \in DOMAIN CallsOf(i) :
        CallsOf(i)[k].file = StageFile(4, Base(i)) /\ CallsOf(i)[k].exit0

\* the four stages of item i were run and all exited 0
FourStagesOk(i) ==
    /\ Len(CallsOf(i)) = 4
    /\ \A k \in 1..4 : CallsOf(i)[k].exit0

\* item i was taken up by the loop
Attempted(i) == CallsOf(i) # <<>> \/ i \in raised

LoopLeft == pc \in {"post", "probe", "fill", "finish", "done", "crashed"}

\* the item whose processing has just ended
JustEnded == idx - 1

AtItemEnd == pc = "loop" /\ idx > 1

(***************************************************************************)
(* C1: in both variants the pdal invocations of an item come in the order  *)
(* filter-ground, filter-buildings, merge, rasterize, and an invocation is *)
(* made only when every earlier one of the same item exited 0: after the   *)
(* first failing stage the item has no further invocation.                 *)
(***************************************************************************)
C1_StageOrder ==
    \A i \in Items :
        /\ Len(CallsOf(i)) <= 4
        /\ \A k \in DOMAIN CallsOf(i) :
              /\ CallsOf(i)[k].file = StageFile(k, Base(i))
              /\ \A j \in 1..(k - 1) : CallsOf(i)[j].exit0

\* one item ran its four stages, another stopped at a failing merge
C1_Witness ==
    /\ pc = "done"
    /\ \E i, j \in Items :
          /\ FourStagesOk(i)
          /\ Len(CallsOf(j)) = 3
          /\ ~CallsOf(j)[3].exit0

(***************************************************************************)
(* C2: at every point of a run and for every work item W, the FinalRaster  *)
(* path of W is in raster_outputs if and only if the rasterize stage of W  *)
(* has succeeded.                                                          *)
(***************************************************************************)
C2_ListedIffRasterized ==
    \A i \in Items :
        (FinalRaster(Base(i)) \in Range(raster_outputs)) <=> RasterizeSucceeded(i)

(***************************************************************************)
(* C3: a stage failure ends only its own item: absent cancellation every   *)
(* item of the enumeration has been attempted from its first stage when    *)
(* the loop is left, and the run reports as produced exactly the items     *)
(* whose four stages succeeded.                                            *)
(***************************************************************************)
C3_FailureIsolated ==
    /\ (LoopLeft /\ ~canceled) =>
          \A i \in Items :
              /\ Attempted(i)
              /\ CallsOf(i) # <<>> => CallsOf(i)[1].file = StageFile(1, Base(i))
    /\ pc = "done" =>
          /\ result.PROCESSED_COUNT = Cardinality({i \in Items : FourStagesOk(i)})
          /\ result.TOTAL_COUNT = Len(laz_files)

\* two items, the merge of the first exits non-zero, the second succeeds: 1/2
C3_Witness ==
    /\ pc = "done"
    /\ Len(laz_files) = 2
    /\ Len(CallsOf(1)) = 3
    /\ ~CallsOf(1)[3].exit0
    /\ FourStagesOk(2)
    /\ result = [PROCESSED_COUNT |-> 1, TOTAL_COUNT |-> 2]

(***************************************************************************)
(* C4 as stated: in processAlgorithm an item whose processing raised an    *)
(* exception (also one raised while deleting files) contributes no         *)
(* FinalRaster to raster_outputs.                                          *)
(***************************************************************************)
C4_RaisedContributesNothing ==
    variant = "qgis" => \A i \in raised : i \notin Range(appended_by)

(***************************************************************************)
(* C4 amended: in processAlgorithm an exception raised while an item is    *)
(* processed is caught at the item boundary and the loop goes on with the  *)
(* next item; the item contributes no FinalRaster and no count when the    *)
(* exception came before its rasterize stage succeeded (an item that       *)
(* raised and is in the list has its four stages succeeded: the exception  *)
(* came from a deletion, after the append).                                *)
(***************************************************************************)
C4_ExceptionCaughtAtItem ==
    variant = "qgis" =>
        /\ \A i \in raised :
              /\ idx > i
              /\ i \in Range(appended_by) => FourStagesOk(i)
        /\ pc = "crashed" =>
              /\ fillCalls # <<>>
              /\ fillCalls[Len(fillCalls)].returned = "raise"
        /\ (LoopLeft /\ ~canceled) => \A i \in Items : Attempted(i)
        /\ pc = "done" =>
              result.PROCESSED_COUNT = Cardinality({i \in Items : FourStagesOk(i)})

\* the first item raised before its raster, the second was still processed
C4_Witness ==
    /\ variant = "qgis"
    /\ pc = "done"
    /\ Len(laz_files) = 2
    /\ 1 \in raised
    /\ 1 \notin Range(appended_by)
    /\ FourStagesOk(2)
    /\ result.PROCESSED_COUNT = 1

C6_NoDescriptionAtItemEnd ==
    (variant = "qgis" /\ AtItemEnd) =>
        \A k \in 1..4 : StageFile(k, Base(JustEnded)) \notin files

(***************************************************************************)
(* C7: in both variants, once the run has completed, the transient folder  *)
(* holds no stage-description (.json) file.                                *)
(***************************************************************************)
C7_NoDescriptionAtEnd ==
    pc = "done" =>
        ~ \E f \in files :
            /\ f.dir = (IF variant = "qgis" THEN "output/temp" ELSE "temp")
            /\ f.suffix = ".json"

(***************************************************************************)
(* C8: within one run of processAlgorithm two distinct work items never    *)
(* share an intermediate, stage-description, FinalRaster or FilledRaster   *)
(* path, and raster_outputs holds no path twice.                           *)
(***************************************************************************)
ItemPaths(i) ==
    Intermediates(Base(i))
    \cup {FinalRaster(Base(i))}
    \cup {StageFile(k, Base(i)) : k \in 1..4}
    \cup {[dir |-> "output/nodata_raster_final",
           stem |-> Base(i) \o "_raster_filled", suffix |-> ".tif"]}

C8_NoSharedPath ==
    variant = "qgis" =>
        /\ \A i, j \in Items : i # j => ItemPaths(i) \cap ItemPaths(j) = {}
        /\ \A m, n \in DOMAIN raster_outputs :
              raster_outputs[m] = raster_outputs[n] => m = n

(***************************************************************************)
(* C9: the tool detector probes the candidates in the order module form,   *)
(* gdal_fillnodata, gdal_fillnodata.py, stops at the first probe that      *)
(* succeeds and returns that candidate; a probe that exits non-zero, times *)
(* out or raises makes the detector go on and never leaves it; with no     *)
(* successful probe all three were tried and the answer is None.           *)
(***************************************************************************)
Candidates ==
    << <<"python", "-m", "osgeo_utils.gdal_fillnodata">>,
       <<"gdal_fillnodata">>,
       <<"gdal_fillnodata.py">> >>

DetectorReturned == detectCalls > 0 /\ pc \in {"fill", "finish", "done", "crashed"}

C9_FirstWorkingCandidate ==
    /\ Len(probes) <= 3
    /\ \A k \in DOMAIN probes :
          /\ probes[k].cmd = Candidates[k] \o <<"--help">>
          /\ k < Len(probes) => ~probes[k].exit0
    /\ DetectorReturned =>
          /\ probes # <<>>
          /\ IF probes[Len(probes)].exit0
             THEN fillnodata_cmd = Candidates[Len(probes)]
             ELSE Len(probes) = 3 /\ fillnodata_cmd = None

\* the first candidate fails, the second answers, the third is not tried
C9_Witness ==
    /\ pc = "fill"
    /\ Len(probes) = 2
    /\ ~probes[1].exit0
    /\ probes[2].exit0
    /\ fillnodata_cmd = <<"gdal_fillnodata">>

(***************************************************************************)
(* C10: in a run the tool detector is invoked at most once: exactly once   *)
(* when raster_outputs is non-empty after the item loop, never when it is  *)
(* empty; and no pdal stage is invoked once the detector or a fill has     *)
(* been invoked.                                                           *)
(***************************************************************************)
C10_DetectorOnceAfterLoop ==
    /\ [](/\ detectCalls <= 1
          /\ (detectCalls > 0 \/ probes # <<>> \/ fillCalls # <<>>) => LoopLeft
          /\ pc \in {"probe", "fill", "finish", "done", "crashed"} =>
                (detectCalls = 1 <=> raster_outputs # <<>>)
          /\ probes # <<>> => detectCalls = 1)
    /\ [][engineCalls' # engineCalls =>
             (detectCalls = 0 /\ probes = <<>> /\ fillCalls = <<>>)]_vars

\* a run with a failed item and a produced raster reached its fill
C10_Witness ==
    /\ pc = "done"
    /\ detectCalls = 1
    /\ fillCalls # <<>>
    /\ \E i \in Items : ~FourStagesOk(i)

(***************************************************************************)
(* C11: when the detector resolved a command and no cancellation was       *)
(* requested, the fill loop has made, when it is over, exactly one         *)
(* invocation per entry of raster_outputs, in list order, each being the   *)
(* resolved command followed by -md <fill distance> -si 0 <raster path>    *)
(* <filled raster path of that raster>; an invocation that failed was      *)
(* answered by the runner and the later rasters were still filled.         *)
(***************************************************************************)
FilledRaster(raster_file) ==
    [dir |-> IF variant = "qgis" THEN "output/nodata_raster_final"
             ELSE "resultados/nodata_rasters",
     stem |-> raster_file.stem \o (IF variant = "qgis" THEN "_filled" ELSE "_nodata"),
     suffix |-> ".tif"]

FillLoopOver == pc \in {"finish", "done", "crashed"}

C11_FillEachRasterOnce ==
    (fillnodata_cmd # None /\ ~canceled /\ FillLoopOver) =>
        /\ Len(fillCalls) = Len(raster_outputs)
        /\ \A k \in DOMAIN fillCalls :
              /\ fillCalls[k].cmd =
                    fillnodata_cmd \o <<"-md", "75", "-si", "0",
                                        PathStr(raster_outputs[k]),
                                        PathStr(FilledRaster(raster_outputs[k]))>>
              /\ fillCalls[k].returned \in {"True", "False"}

(***************************************************************************)
(* C12: when no candidate answered the probe, the absence of the tool is   *)
(* reported once, no fill invocation is made and the filled-raster folder  *)
(* stays empty, the run goes on to its end, and the counts it returns are  *)
(* those of the items whose four stages succeeded.                         *)
(***************************************************************************)
C12_UnavailableToolSkipsFill ==
    /\ notFound <= 1
    /\ notFound = 1 => (DetectorReturned /\ fillnodata_cmd = None)
    /\ (DetectorReturned /\ fillnodata_cmd = None) =>
          /\ notFound = 1
          /\ Len(probes) = 3
          /\ fillCalls = <<>>
          /\ \A f \in files : f.dir \notin {"output/nodata_raster_final",
                                             "resultados/nodata_rasters"}
          /\ \/ pc \in {"finish", "done"}
             \/ variant = "standalone" /\ pc = "crashed"
          /\ pc = "done" =>
                result = [PROCESSED_COUNT |-> Cardinality({i \in Items : FourStagesOk(i)}),
                          TOTAL_COUNT |-> Len(laz_files)]

\* a raster was produced, the three probes failed, the run returned 1 of n
C12_Witness ==
    /\ pc = "done"
    /\ Len(probes) = 3
    /\ notFound = 1
    /\ raster_outputs # <<>>
    /\ result.PROCESSED_COUNT >= 1

(***************************************************************************)
(* C13: when the input folder holds no *.laz and no *.las file the run     *)
(* stops with an error right after the discovery: no pdal stage, no probe, *)
(* no fill invocation, no file written, nothing but the three folders      *)
(* created, no counts returned; and the run stops there only when no work  *)
(* item was found.                                                         *)
(***************************************************************************)
NoRecognizedFile == \A f \in inputDir : f.suffix \notin {".laz", ".las"}

C13_EmptyInputFailsFast ==
    /\ (pc # "start" /\ NoRecognizedFile) =>
          /\ pc = "error"
          /\ \A i \in DOMAIN engineCalls : engineCalls[i] = <<>>
          /\ detectCalls = 0
          /\ probes = <<>>
          /\ fillCalls = <<>>
          /\ files = {}
          /\ result = None
    /\ pc = "error" =>
          /\ laz_files = <<>>
          /\ dirs \subseteq
                (IF variant = "qgis"
                 THEN {"output", "output/nodata_raster_final", "output/temp"}
                 ELSE {"resultados", "resultados/nodata_rasters", "temp"})

\* a folder holding only a file that is no point cloud
C13_Witness ==
    /\ pc = "error"
    /\ inputDir # {}
    /\ NoRecognizedFile
    /\ dirs # {}

(***************************************************************************)
(* C14: processAlgorithm returns TOTAL_COUNT = the number of *.laz and     *)
(* *.las files of the input folder and PROCESSED_COUNT = the number of     *)
(* items whose four stages all succeeded, with PROCESSED_COUNT <=          *)
(* TOTAL_COUNT, whatever the detector and the fill invocations did.        *)
(***************************************************************************)
C14_ReturnedCounts ==
    (variant = "qgis" /\ pc = "done") =>
        /\ result.TOTAL_COUNT =
              Cardinality({f \in inputDir : f.suffix \in {".laz", ".las"}})
        /\ result.PROCESSED_COUNT = Cardinality({i \in Items : FourStagesOk(i)})
        /\ result.PROCESSED_COUNT <= result.TOTAL_COUNT

\* every item succeeded under cleanup: n of n, one filled raster per item
\* and no intermediate file left
C14_Witness ==
    /\ variant = "qgis"
    /\ cleanup
    /\ pc = "done"
    /\ Len(laz_files) = 2
    /\ Base(1) # Base(2)
    /\ result = [PROCESSED_COUNT |-> 2, TOTAL_COUNT |-> 2]
    /\ \A i \in Items :
          /\ FourStagesOk(i)
          /\ FilledRaster(FinalRaster(Base(i))) \in files
          /\ Intermediates(Base(i)) \cap files = {}

(***************************************************************************)
(* C15: a run of processAlgorithm that found at least one work item is     *)
(* never ended by an exception: whatever the pdal stages, the item         *)
(* handling, the probes and the fill invocations do, nothing propagates    *)
(* out of the driver, which goes on to return the counts.                  *)
(***************************************************************************)
C15_NothingEscapesDriver ==
    (variant = "qgis" /\ laz_files # <<>>) => pc \notin {"crashed", "error"}

(***************************************************************************)
(* C16: in processAlgorithm cancellation is polled at every stage boundary *)
(* and every item boundary: once cancellation was requested and the stage  *)
(* that was executing has returned, no further stage is started, neither   *)
(* of the same item nor of a later one.  (A stage step covers the whole    *)
(* invocation, so a Cancel step taken between two stage steps stands for a *)
(* request made at any moment while the earlier stage was executing.)      *)
(***************************************************************************)
AtBoundary == pc = "loop" \/ (pc = "stage" /\ stage > 1)

C16_NoStageAfterCancel ==
    [][(variant = "qgis" /\ canceled /\ AtBoundary) => engineCalls' = engineCalls]_vars

(***************************************************************************)
(* C17: processAlgorithm run twice in succession on the same input and     *)
(* output folders with cleanup = true, the environment answering the       *)
(* second run as it answered the first: the second run executes the same   *)
(* stages of the same items, and when it returns raster_outputs, the       *)
(* returned counts and the set of files under the output folder are those  *)
(* of the first run, whatever the first run left behind.                   *)
(***************************************************************************)
C17_SecondRunSame ==
    /\ previous.taken => pc \notin {"error", "crashed"}
    /\ (previous.taken /\ pc = "done") =>
          /\ laz_files = previous.laz_files
          /\ \A i \in Items : Len(CallsOf(i)) = Len(previous.engineCalls[i])
          /\ raster_outputs = previous.raster_outputs
          /\ result = previous.result
          /\ files = previous.files

\* the first run left a raster, and stage descriptions and an intermediate
\* file of an item whose merge failed; the second run has returned
C17_Witness ==
    /\ previous.taken
    /\ pc = "done"
    /\ raster_outputs # <<>>
    /\ \E i \in Items :
          /\ Len(previous.engineCalls[i]) = 3
          /\ StageFile(3, Base(i)) \in previous.files
          /\ OutFile(Base(i), "_suelo", ".las") \in previous.files

(***************************************************************************)
(* C18: in processAlgorithm, for an item whose stage k failed, the output  *)
(* files of its stages 1..k-1 exist from the end of the item to the end of *)
(* the run, whatever the cleanup flag: the cleanup deletes files only of   *)
(* items whose rasterize stage succeeded.                                  *)
(***************************************************************************)
StageFailed(i) == CallsOf(i) # <<>> /\ ~CallsOf(i)[Len(CallsOf(i))].exit0

EarlierOutputs(i) ==
    {OutFile(Base(i), <<"_suelo", "_edificios", "_merged">>[j], ".las") :
        j \in 1..(Len(CallsOf(i)) - 1)}

C18_FailedItemKeepsIntermediates ==
    variant = "qgis" =>
        \A i \in Items :
            (StageFailed(i) /\ idx > i) => EarlierOutputs(i) \subseteq files

(***************************************************************************)
(* C19: the command runner answers every invocation with success or        *)
(* failure, and with success exactly when the process exited with status   *)
(* zero (a non-zero exit and a timeout are reported and answered with      *)
(* failure).                                                               *)
(***************************************************************************)
C19_RunnerAlwaysAnswers ==
    /\ \A i \in Items : \A k \in DOMAIN CallsOf(i) :
          /\ CallsOf(i)[k].returned \in {"True", "False"}
          /\ CallsOf(i)[k].returned = "True" <=> CallsOf(i)[k].exit0
    /\ \A k \in DOMAIN fillCalls :
          /\ fillCalls[k].returned \in {"True", "False"}
          /\ fillCalls[k].returned = "True" <=> fillCalls[k].exit0

(***************************************************************************)
(* C20: in processAlgorithm, with N work items (steps = 5 * N + 1), every  *)
(* value passed to feedback.setCurrentStep, the one before the fill stage  *)
(* included, is between 0 and 5 * N.                                       *)
(***************************************************************************)
C20_StepWithinDeclared ==
    variant = "qgis" => shownStep <= 5 * Len(laz_files)

(***************************************************************************)
(* C21: in processAlgorithm, once cancellation was observed at an item     *)
(* boundary (the loop was left with items remaining), no stage of that     *)
(* item or of a later one is started and no fill invocation is made; the   *)
(* detector is called once when a raster was produced, never otherwise;    *)
(* the run is not ended by an exception and returns PROCESSED_COUNT = the  *)
(* number of rasters produced before the cancellation and TOTAL_COUNT =    *)
(* the number of discovered items, those never attempted included.         *)
(***************************************************************************)
CancelObserved == variant = "qgis" /\ LoopLeft /\ idx <= Len(laz_files)

C21_CanceledRunReturns ==
    /\ [](CancelObserved =>
            /\ canceled
            /\ \A j \in Items : j >= idx => (CallsOf(j) = <<>> /\ j \notin raised)
            /\ fillCalls = <<>>
            /\ detectCalls <= 1
            /\ pc \in {"probe", "fill", "finish", "done"} =>
                  (detectCalls = 1 <=> raster_outputs # <<>>)
            /\ pc # "crashed"
            /\ pc = "done" =>
                  /\ result.PROCESSED_COUNT = Len(raster_outputs)
                  /\ result.PROCESSED_COUNT =
                        Cardinality({i \in 1..(idx - 1) : FourStagesOk(i)})
                  /\ result.TOTAL_COUNT =
                        Cardinality({f \in inputDir : f.suffix \in {".laz", ".las"}}))
    /\ [][CancelObserved => (engineCalls' = engineCalls /\ fillCalls' = fillCalls)]_vars

\* cancelled before the second of two items, after the first produced its
\* raster: the detector resolved a command, nothing was filled, 1 of 2
C21_Witness ==
    /\ CancelObserved
    /\ pc = "done"
    /\ Len(laz_files) = 2
    /\ idx = 2
    /\ FourStagesOk(1)
    /\ fillnodata_cmd # None
    /\ fillCalls = <<>>
    /\ result = [PROCESSED_COUNT |-> 1, TOTAL_COUNT |-> 2]

====
